---- MODULE Spec2Model ----
(***************************************************************************)
(* Model of package abf (src/abf.go): the process-wide test/production     *)
(* mode, the parameter set RequestPickup builds from a PickupRequest, the  *)
(* HTTP exchange, and the decoding and classification of the XML reply.    *)
(***************************************************************************)
EXTENDS Integers, Sequences, FiniteSets, TLC

VARIABLES
    p,            \* the PickupRequest's string fields: field name -> value
    Items,        \* p.Items, the list of Commodity
    carrier,      \* what the endpoint does with the POST of this process
    testMode,     \* package variable testMode
    modeCalls,    \* history: the arguments of the SetProductionMode calls so far
    seen,         \* history: modeCalls as it was when RequestPickup was last called
    v,            \* the url.Values built by the last RequestPickup
    posts,        \* number of HTTP POSTs the last RequestPickup performed
    responseData, \* named result responseData of the last RequestPickup
    err,          \* named result err of the last RequestPickup
    returned      \* a RequestPickup call has returned

vars == <<p, Items, carrier, testMode, modeCalls, seen, v, posts, responseData,
          err, returned>>

-----------------------------------------------------------------------------
(* Bounds and program constants *)

\* Width in bits of Go's uint and int, scaled down from 64.
WordBits == 5

\* Longest commodity list tried.
MaxItems == 16

\* Longest history of SetProductionMode calls.
MaxModeCalls == 3

\* "up to 15 can be added per pickup request (**1-15)"
MaxCommodities == 15

-----------------------------------------------------------------------------
(* strconv *)

DigitStr == <<"0", "1", "2", "3", "4", "5", "6", "7", "8", "9">>

RECURSIVE NatStr(_)
\* The decimal digits of a natural number.
NatStr(n) ==
    IF n < 10 THEN DigitStr[n + 1]
    ELSE NatStr(n \div 10) \o DigitStr[(n % 10) + 1]

\* strconv.Itoa
Itoa(n) == IF n < 0 THEN "-" \o NatStr(-n) ELSE NatStr(n)

\* The conversion int(x) of a uint x: same bits, read as two's complement.
ToInt(u) == IF u >= 2 ^ (WordBits - 1) THEN u - 2 ^ WordBits ELSE u

\* strconv.FormatFloat(w, 'f', 0, 64) of a weight given in tenths of a pound:
\* no fractional digits, round half to even, the sign kept.
FormatWeight(tenths) ==
    LET a == IF tenths < 0 THEN -tenths ELSE tenths
        q == a \div 10
        r == a % 10
        n == IF r > 5 \/ (r = 5 /\ q % 2 = 1) THEN q + 1 ELSE q
    IN  IF tenths < 0 THEN "-" \o NatStr(n) ELSE NatStr(n)

-----------------------------------------------------------------------------
(* The request *)

\* The fields RequestPickup adds, in the order it adds them.
SentFields ==
    <<"ID", "RequesterType", "PayTerms", "ShipContact", "ShipName",
      "ShipAddress", "ShipCity", "ShipState", "ShipZip", "ShipCountry",
      "ShipPhone", "ConsCity", "ConsState", "ConsZip", "ConsCountry",
      "PickupDate", "AT", "OT", "CT", "Bol", "PO1", "CRN1">>

\* The string fields of PickupRequest declared "required".
RequiredFields ==
    {"ID", "RequesterType", "PayTerms", "ShipContact", "ShipName",
     "ShipAddress", "ShipCity", "ShipState", "ShipZip", "ShipCountry",
     "ShipPhone", "ConsCity", "ConsState", "ConsZip", "ConsCountry",
     "PickupDate", "AT", "OT", "CT"}

\* The string fields of PickupRequest declared "optional".
OptionalFields ==
    {"Test", "RequesterName", "RequesterEmail", "RequesterPhone",
     "RequesterPhoneExt", "ShipNamePlus", "ShipPhoneExt", "ShipFax",
     "ShipEmail", "ConsContact", "ConsName", "ConsNamePlus", "ConsAddress",
     "ConsPhone", "ConsPhoneExt", "ConsFax", "ConsEmail", "TPBContact",
     "TPBName", "TPBNamePlus", "TPBAddress", "TPBCity", "TPBState", "TPBZip",
     "TPBCountry", "TPBPhone", "TPBPhoneExt", "TPBFax", "TPBEmail", "Bol",
     "PO1", "CRN1"}

ScalarFields == RequiredFields \cup OptionalFields

\* The encoded fields of a Commodity (Weight in tenths of a pound).
Commodity(hn, ht, pn, pt, wt) ==
    [HandlingUnits |-> hn, UnitType |-> ht, Pieces |-> pn, PiecesType |-> pt,
     Weight |-> wt]

-----------------------------------------------------------------------------
(* url.Values and the parameters RequestPickup builds *)

\* The empty url.Values.
NoValues == <<>>

\* The values of the calls v.Add(key, value) that name the key, in call order.
ValuesOf(calls, key) ==
    LET hits == SelectSeq(calls, LAMBDA c : c[1] = key)
    IN  [i \in 1 .. Len(hits) |-> hits[i][2]]

\* url.Values after a sequence of Add calls on the empty map: Add appends the
\* value to the list stored under the key.
Values(calls) ==
    [key \in {calls[i][1] : i \in 1 .. Len(calls)} |-> ValuesOf(calls, key)]

\* v.Add(name, p.name) for the fields of SentFields, in order.
FieldCalls(req) ==
    [i \in 1 .. Len(SentFields) |-> <<SentFields[i], req[SentFields[i]]>>]

\* Variant of TestParam: the request's own Test field is sent.
TestParamFromRequest(req, mode) == req["Test"]

\* v.Add("Test", testMode)
TestParam(req, mode) == mode

\* Variant of ItemSuffix: two neighbouring commodities share a suffix.
ItemSuffixHalved(index) == Itoa(index \div 2)

\* The suffix of the keys of the commodity at index (Go's 0-based range index).
ItemSuffix(index) == Itoa(index)

\* The five values sent for one commodity.
HNValue(item) == Itoa(ToInt(item.HandlingUnits))
HTValue(item) == item.UnitType
PNValue(item) == Itoa(ToInt(item.Pieces))
PTValue(item) == item.PiecesType
WTValue(item) == FormatWeight(item.Weight)

\* The five Add calls of the range loop's body for one (index, item).
ItemCalls(index, item) ==
    LET s == ItemSuffix(index)
    IN  << <<"HN" \o s, HNValue(item)>>,
           <<"HT" \o s, HTValue(item)>>,
           <<"PN" \o s, PNValue(item)>>,
           <<"PT" \o s, PTValue(item)>>,
           <<"WT" \o s, WTValue(item)>> >>

\* for index, item := range p.Items: the Add calls of the whole loop.
LoopCalls(items) ==
    [j \in 1 .. (5 * Len(items)) |->
        ItemCalls((j - 1) \div 5, items[((j - 1) \div 5) + 1])[((j - 1) % 5) + 1]]

\* The parameter set of a request under a mode.
BuildParams(req, items, mode) ==
    Values(FieldCalls(req) \o <<(<<"Test", TestParam(req, mode)>>)>>
           \o LoopCalls(items))

-----------------------------------------------------------------------------
(* Errors *)

\* An error value: its dynamic type and its messages, outermost first
\* (Error() joins them with ": ").
Err(type, chain) == [type |-> type, chain |-> chain]

NilErr == Err("nil", <<>>)

\* errors.New
New(text) == Err("*errors.fundamental", <<text>>)

\* errors.Wrap(cause, message), cause not nil.
Wrap(cause, message) == Err("*errors.withStack", <<message>> \o cause.chain)

\* The error types xml.Unmarshal returns.
DecodeErrTypes ==
    {"io.EOF", "*xml.SyntaxError", "xml.UnmarshalError", "*strconv.NumError"}

-----------------------------------------------------------------------------
(* The reply: a response body is the sequence of its XML tokens *)

TagNames ==
    {"ABF", "CONFIRMATION", "SHIP", "CONS", "TPB", "NUMERRORS", "ERROR",
     "ERRORCODE", "ERRORMESSAGE", "NAME", "HTML"}

Open(name) == "<" \o name \o ">"
Close(name) == "</" \o name \o ">"

\* Markup the tokenizer cannot read (an unterminated or broken tag).
Malformed == "<"

IsOpen(tok) == \E n \in TagNames : tok = Open(n)
IsClose(tok) == \E n \in TagNames : tok = Close(n)
NameOf(tok) == CHOOSE n \in TagNames : tok \in {Open(n), Close(n)}

\* The zero Response.
ZeroResponse ==
    [XMLName |-> "", ConfirmationNumber |-> "", Ship |-> "nil",
     Consignee |-> "nil", ThirdParty |-> "nil", NumErrors |-> 0,
     Error |-> [Code |-> "", Message |-> ""]]

\* The element paths that the fields of Response and Error are tagged with.
ConfirmationPath == <<"ABF", "CONFIRMATION">>
NumErrorsPath == <<"ABF", "NUMERRORS">>
ErrorCodePath == <<"ABF", "ERROR", "ERRORCODE">>
ErrorMessagePath == <<"ABF", "ERROR", "ERRORMESSAGE">>
ScalarPaths ==
    {ConfirmationPath, NumErrorsPath, ErrorCodePath, ErrorMessagePath}

\* strconv.ParseUint of character data, for the uint field NumErrors.
IsUintText(s) == \E n \in 0 .. (2 ^ WordBits - 1) : NatStr(n) = s
ParseUint(s) == CHOOSE n \in 0 .. (2 ^ WordBits - 1) : NatStr(n) = s

\* The decoder before the first token.
DecoderStart ==
    [pos |-> 1, stack |-> <<>>, resp |-> ZeroResponse, data |-> "",
     err |-> NilErr, done |-> FALSE]

Fail(d, type, text) == [d EXCEPT !.err = Err(type, <<text>>), !.done = TRUE]

\* Variant of AtEOF: the end of the input closes whatever is open.
AtEOFLenient(d) == [d EXCEPT !.done = TRUE]

\* The input ends: io.EOF before the root element, a syntax error inside it.
AtEOF(d) ==
    IF d.stack = <<>> THEN Fail(d, "io.EOF", "EOF")
    ELSE Fail(d, "*xml.SyntaxError", "XML syntax error: unexpected EOF")

\* A start element. The first one must be the root ABF (the XMLName tag);
\* below it an element is a field, or it is skipped with everything in it.
OnStart(d, name) ==
    IF d.stack = <<>> /\ name # "ABF"
    THEN Fail(d, "xml.UnmarshalError", "expected element type <ABF>")
    ELSE LET st == Append(d.stack, name)
         IN  [d EXCEPT !.pos = @ + 1,
                       !.stack = st,
                       !.data = IF st \in ScalarPaths THEN "" ELSE @,
                       !.resp.XMLName = IF st = <<"ABF">> THEN "ABF" ELSE @]

\* copyValue: store the character data of a field's element in the field.
CopyValue(d, path) ==
    IF path = ConfirmationPath
    THEN [d EXCEPT !.resp.ConfirmationNumber = d.data]
    ELSE IF path = ErrorCodePath
    THEN [d EXCEPT !.resp.Error.Code = d.data]
    ELSE IF path = ErrorMessagePath
    THEN [d EXCEPT !.resp.Error.Message = d.data]
    ELSE IF path = NumErrorsPath
    THEN IF d.data = "" THEN [d EXCEPT !.resp.NumErrors = 0]
         ELSE IF IsUintText(d.data)
         THEN [d EXCEPT !.resp.NumErrors = ParseUint(d.data)]
         ELSE Fail(d, "*strconv.NumError", "strconv.ParseUint: invalid syntax")
    ELSE d

\* An end element: it must close the open element; a field's value is stored
\* when its element ends, and decoding stops when the root ends.
OnEnd(d, name) ==
    IF d.stack = <<>> \/ d.stack[Len(d.stack)] # name
    THEN Fail(d, "*xml.SyntaxError", "XML syntax error: unexpected end element")
    ELSE LET c  == CopyValue(d, d.stack)
             st == SubSeq(d.stack, 1, Len(d.stack) - 1)
         IN  IF c.done THEN c
             ELSE [c EXCEPT !.pos = @ + 1, !.stack = st, !.done = (st = <<>>)]

\* Character data: kept for the scalar field being read, ignored elsewhere.
OnText(d, text) ==
    [d EXCEPT !.pos = @ + 1,
              !.data = IF d.stack \in ScalarPaths THEN @ \o text ELSE @]

\* One token of the body.
DecodeStep(body, d) ==
    IF d.pos > Len(body) THEN AtEOF(d)
    ELSE LET tok == body[d.pos]
         IN  IF tok = Malformed
             THEN Fail(d, "*xml.SyntaxError", "XML syntax error")
             ELSE IF IsOpen(tok) THEN OnStart(d, NameOf(tok))
             ELSE IF IsClose(tok) THEN OnEnd(d, NameOf(tok))
             ELSE OnText(d, tok)

RECURSIVE Decode(_, _)
Decode(body, d) == IF d.done THEN d ELSE Decode(body, DecodeStep(body, d))

\* xml.Unmarshal(body, &responseData): the Response as far as it was filled,
\* and the error.
Unmarshal(body) == Decode(body, DecoderStart)

-----------------------------------------------------------------------------
(* Classification of the reply *)

RejectionText == "abf.RequestPickup - pickup request failed"

\* Variant of IsFailure: the error count decides.
IsFailureByNumErrors(resp) == resp.NumErrors > 0

\* if responseData.ConfirmationNumber == ""
IsFailure(resp) == resp.ConfirmationNumber = ""

\* Variant of RejectionError: the carrier's code is wrapped in, not its message.
RejectionErrorWithCode(resp) == Wrap(New(RejectionText), resp.Error.Code)

\* err = errors.New(...); err = errors.Wrap(err, responseData.Error.Message)
RejectionError(resp) == Wrap(New(RejectionText), resp.Error.Message)

\* The results of RequestPickup once the POST has been attempted. The results
\* of errors.Wrap on the three early returns are discarded, so err is the
\* error as the callee returned it.
PickupResult(c) ==
    IF c.kind = "refused"
    THEN [resp |-> ZeroResponse, err |-> Err("*url.Error", <<"Post: dial tcp">>)]
    ELSE IF c.kind = "readfail"
    THEN [resp |-> ZeroResponse, err |-> Err("*net.OpError", <<"read tcp">>)]
    ELSE LET d == Unmarshal(c.body)
         IN  IF d.err # NilErr THEN [resp |-> d.resp, err |-> d.err]
             ELSE IF IsFailure(d.resp)
             THEN [resp |-> d.resp, err |-> RejectionError(d.resp)]
             ELSE [resp |-> d.resp, err |-> NilErr]

-----------------------------------------------------------------------------
(* Inputs: the requests, the commodity lists and the carrier's replies *)

\* A request with every required field filled in, each with its own value.
SampleRequest ==
    [f \in ScalarFields |-> IF f \in RequiredFields THEN f \o "-value" ELSE ""]

\* SampleRequest, and SampleRequest with one field changed: a required field
\* left empty, an optional field filled in, the Test field set to "Y" or "N".
Requests ==
    {SampleRequest}
    \cup {[SampleRequest EXCEPT ![f] = ""] : f \in RequiredFields}
    \cup {[SampleRequest EXCEPT ![f] = f \o "-value"] :
            f \in OptionalFields \ {"Test"}}
    \cup {[SampleRequest EXCEPT !["Test"] = t] : t \in {"Y", "N"}}

\* Values of a uint field: the ends of the range and both sides of the sign bit.
UintSamples ==
    {0, 1, 2 ^ (WordBits - 1) - 1, 2 ^ (WordBits - 1), 2 ^ WordBits - 1}

\* Weights in tenths of a pound: 0, 42.5, 42.7, 43.5 and -0.4.
WeightSamples == {0, 425, 427, 435, -4}

Commodities ==
    {Commodity(hn, ht, pn, "CTN", wt) :
        hn \in UintSamples, ht \in {"PLT", ""}, pn \in UintSamples,
        wt \in WeightSamples}

\* The i-th commodity of a list whose commodities all differ.
NthCommodity(i) ==
    Commodity(i % (2 ^ WordBits), "PLT", (2 ^ WordBits - i) % (2 ^ WordBits),
              "CTN", 10 * i)

\* Every list of one commodity, and a list of each length up to MaxItems.
ItemLists ==
    {<<c>> : c \in Commodities}
    \cup {[i \in 1 .. n |-> NthCommodity(i)] : n \in 0 .. MaxItems}

SampleItems == <<Commodity(2, "PLT", 10, "CTN", 427)>>

\* An element holding character data (none when text is empty).
Elem(name, text) ==
    IF text = "" THEN <<Open(name), Close(name)>>
    ELSE <<Open(name), text, Close(name)>>

Within(name, inner) == <<Open(name)>> \o inner \o <<Close(name)>>

\* The children of the root, each absent or in one of a few forms.
ConfirmationForms ==
    {<<>>, Elem("CONFIRMATION", ""), Elem("CONFIRMATION", "ABC123")}
NumErrorsForms ==
    {<<>>, Elem("NUMERRORS", "0"), Elem("NUMERRORS", "1"),
     Elem("NUMERRORS", "abc")}
ErrorForms ==
    {<<>>,
     Within("ERROR", Elem("ERRORCODE", "E01")
                     \o Elem("ERRORMESSAGE", "Missing zip")),
     Within("ERROR", Elem("ERRORMESSAGE", "Missing zip")),
     Within("ERROR", Elem("ERRORCODE", "E01"))}
ShipForms == {<<>>, Within("SHIP", Elem("NAME", "Acme"))}

\* The contents of well-formed replies: CONFIRMATION first or last.
Contents ==
    {c \o s \o n \o e : c \in ConfirmationForms, s \in ShipForms,
                        n \in NumErrorsForms, e \in ErrorForms}
    \cup {n \o e \o c : c \in ConfirmationForms, n \in NumErrorsForms,
                        e \in ErrorForms}

Documents == {Within("ABF", inner) : inner \in Contents}

\* Bodies that are not a document: cut short, broken markup, another root,
\* the root closed by another tag, and bytes before or after the root.
Truncations ==
    UNION {{SubSeq(d, 1, k) : k \in 0 .. (Len(d) - 1)} : d \in Documents}
Broken ==
    {SubSeq(d, 1, Len(d) - 1) \o tail :
        d \in Documents, tail \in {<<>>, <<Malformed>>, <<Close("HTML")>>}}
OtherRoots == {Within("HTML", inner) : inner \in Contents}
Padded ==
    {d \o tail : d \in Documents,
                 tail \in {<<Malformed>>, <<"junk">>, <<Open("ABF")>>}}
    \cup {<<"junk">> \o d : d \in Documents}

Bodies == Documents \cup Truncations \cup Broken \cup OtherRoots \cup Padded

Reply(body) == [kind |-> "reply", body |-> body]

\* The POST fails, reading the response fails, or a body arrives.
Carriers ==
    {[kind |-> "refused", body |-> <<>>], [kind |-> "readfail", body |-> <<>>]}
    \cup {Reply(b) : b \in Bodies}

SampleCarrier ==
    Reply(Within("ABF", Elem("CONFIRMATION", "ABC123")
                        \o Elem("NUMERRORS", "0")))

-----------------------------------------------------------------------------
(* The state machine *)

Init ==
    /\ \/ p \in Requests /\ Items = SampleItems /\ carrier = SampleCarrier
       \/ p = SampleRequest /\ Items \in ItemLists /\ carrier = SampleCarrier
       \/ p = SampleRequest /\ Items = SampleItems /\ carrier \in Carriers
    /\ testMode = "Y"
    /\ modeCalls = <<>>
    /\ seen = <<>>
    /\ v = NoValues
    /\ posts = 0
    /\ responseData = ZeroResponse
    /\ err = NilErr
    /\ returned = FALSE

\* The body of SetProductionMode: the value of testMode after the call.
ModeAfter(yes, mode) == IF yes THEN "N" ELSE mode

SetProductionMode(yes) ==
    /\ Len(modeCalls) < MaxModeCalls
    /\ testMode' = ModeAfter(yes, testMode)
    /\ modeCalls' = Append(modeCalls, yes)
    /\ UNCHANGED <<p, Items, carrier, seen, v, posts, responseData, err,
                   returned>>

\* p.RequestPickup(): the parameters are built, the POST is made whatever the
\* request holds, and the outcome is decoded and classified.
RequestPickup ==
    LET r == PickupResult(carrier)
    IN  /\ v' = BuildParams(p, Items, testMode)
        /\ posts' = 1
        /\ responseData' = r.resp
        /\ err' = r.err
        /\ seen' = modeCalls
        /\ returned' = TRUE
        /\ UNCHANGED <<p, Items, carrier, testMode, modeCalls>>

Next ==
    \/ \E yes \in BOOLEAN : SetProductionMode(yes)
    \/ RequestPickup

Spec == Init /\ [][Next]_vars

-----------------------------------------------------------------------------
(* Vocabulary of the properties *)

\* The keys of the top-level parameters, and the commodity-indexed keys.
FixedKeys == {SentFields[i] : i \in 1 .. Len(SentFields)} \cup {"Test"}
ItemBases == {"HN", "HT", "PN", "PT", "WT"}
ItemKeys(vals) == DOMAIN vals \ FixedKeys

\* SetProductionMode(true) is among the calls.
ProductionChosen(calls) == \E i \in 1 .. Len(calls) : calls[i]

RECURSIVE Nested(_, _, _)
\* The tokens from i on close the open elements of stack, properly nested,
\* with no broken markup and nothing after the root's end tag.
Nested(body, i, stack) ==
    IF i > Len(body) THEN stack = <<>>
    ELSE IF stack = <<>> THEN FALSE
    ELSE IF body[i] = Malformed THEN FALSE
    ELSE IF IsOpen(body[i])
    THEN Nested(body, i + 1, Append(stack, NameOf(body[i])))
    ELSE IF IsClose(body[i])
    THEN /\ stack[Len(stack)] = NameOf(body[i])
         /\ \/ Len(stack) > 1
            \/ i = Len(body)
         /\ Nested(body, i + 1, SubSeq(stack, 1, Len(stack) - 1))
    ELSE Nested(body, i + 1, stack)

\* The body is a well-formed document whose root element is ABF.
WellFormedABF(body) ==
    /\ Len(body) >= 2
    /\ body[1] = Open("ABF")
    /\ Nested(body, 2, <<"ABF">>)

IsText(tok) == tok # Malformed /\ ~IsOpen(tok) /\ ~IsClose(tok)

\* The body holds a whole ABF element with only character data before it.
HasCompleteRoot(body) ==
    \E i \in 1 .. Len(body) : \E k \in i .. Len(body) :
        /\ \A j \in 1 .. (i - 1) : IsText(body[j])
        /\ WellFormedABF(SubSeq(body, i, k))

\* The character data of the element `name` in a body whose elements hold at
\* most one piece of character data ("" when the element is absent or empty).
ElementText(body, name) ==
    IF \E i \in 1 .. (Len(body) - 2) :
           body[i] = Open(name) /\ body[i + 2] = Close(name)
    THEN body[(CHOOSE i \in 1 .. (Len(body) - 2) :
                   body[i] = Open(name) /\ body[i + 2] = Close(name)) + 1]
    ELSE ""

\* The reply decoded without error and holds no confirmation number.
DecodedUnconfirmed ==
    /\ carrier.kind = "reply"
    /\ Unmarshal(carrier.body).err = NilErr
    /\ Unmarshal(carrier.body).resp.ConfirmationNumber = ""

\* The error's text contains the string as one of its messages.
Embeds(e, s) == \E i \in 1 .. Len(e.chain) : e.chain[i] = s

-----------------------------------------------------------------------------
(* Properties *)

\* C1: a request with more than 15 commodities is rejected with a
\* ValidationError and no HTTP POST is performed during the call.
C1_RejectedBeforePost ==
    (returned /\ Len(Items) > MaxCommodities)
        => (posts = 0 /\ err.type = "ValidationError")

\* C2 as stated: for every response body the returned error is nil exactly
\* when the decoded ConfirmationNumber is non-empty.
C2_NilIffConfirmation ==
    returned => ((err = NilErr) <=> (responseData.ConfirmationNumber # ""))

\* C2 amended: a nil error always comes with a non-empty confirmation number,
\* whatever NUMERRORS and ERROR hold, and a non-empty confirmation number
\* comes with a non-nil error only when that error is xml.Unmarshal's.
C2_Classification ==
    returned =>
        /\ (err = NilErr => responseData.ConfirmationNumber # "")
        /\ (responseData.ConfirmationNumber # "" /\ err # NilErr)
               => err.type \in DecodeErrTypes

\* C2 witness: success although the reply counts an error and carries one.
C2_Witness ==
    /\ returned
    /\ err = NilErr
    /\ responseData.NumErrors > 0
    /\ responseData.Error.Message # ""

\* C3: for n <= 15 commodities the parameters hold the fixed keys and exactly
\* 5*n commodity keys, one suffix per list position, each holding the one
\* value encoded from the commodity at that position.
C3_ItemKeys ==
    (returned /\ Len(Items) <= MaxCommodities) =>
        LET n == Len(Items)
        IN  /\ FixedKeys \subseteq DOMAIN v
            /\ Cardinality(ItemKeys(v)) = 5 * n
            /\ ItemKeys(v) = {b \o NatStr(k) : b \in ItemBases, k \in 0 .. (n - 1)}
            /\ \A k \in 0 .. (n - 1) :
                   /\ v["HN" \o NatStr(k)] = <<HNValue(Items[k + 1])>>
                   /\ v["HT" \o NatStr(k)] = <<HTValue(Items[k + 1])>>
                   /\ v["PN" \o NatStr(k)] = <<PNValue(Items[k + 1])>>
                   /\ v["PT" \o NatStr(k)] = <<PTValue(Items[k + 1])>>
                   /\ v["WT" \o NatStr(k)] = <<WTValue(Items[k + 1])>>

\* C3 witness: a request with the full 15 commodities has been encoded.
C3_Witness == returned /\ Len(Items) = MaxCommodities /\ "WT14" \in DOMAIN v

\* C4: for 1..15 commodities the suffixes sent are exactly 1..n, the first
\* commodity under suffix 1.
C4_SuffixesFromOne ==
    (returned /\ Len(Items) >= 1 /\ Len(Items) <= MaxCommodities) =>
        ItemKeys(v) =
            {b \o NatStr(i) : b \in ItemBases, i \in 1 .. Len(Items)}

C6_EmbedsMessageAndCode ==
    (returned /\ DecodedUnconfirmed) =>
        /\ Embeds(err, ElementText(carrier.body, "ERRORMESSAGE"))
        /\ ElementText(carrier.body, "ERRORCODE") # ""
               => Embeds(err, ElementText(carrier.body, "ERRORCODE"))

\* C6 amended: when the reply decodes and holds no confirmation number the
\* error is the ERRORMESSAGE followed by the package's own message; the
\* ERRORCODE is not in the error and is returned in responseData.Error.Code.
C6_EmbedsMessage ==
    (returned /\ DecodedUnconfirmed) =>
        /\ err.chain = <<ElementText(carrier.body, "ERRORMESSAGE"), RejectionText>>
        /\ responseData.Error.Code = ElementText(carrier.body, "ERRORCODE")

\* C6 witness: a rejection whose reply carries both a code and a message.
C6_Witness ==
    /\ returned
    /\ DecodedUnconfirmed
    /\ ElementText(carrier.body, "ERRORCODE") = "E01"
    /\ ElementText(carrier.body, "ERRORMESSAGE") = "Missing zip"

\* C7: every string field of the request other than Test, required or
\* optional, is sent as exactly one pair carrying the field's value.
C7_EveryFieldSent ==
    returned =>
        \A f \in ScalarFields \ {"Test"} : f \in DOMAIN v /\ v[f] = <<p[f]>>

\* C8: there is exactly one Test parameter; it is the process-wide mode and
\* not the request's Test field; it is "N" only if SetProductionMode(true) was
\* called before the request and "Y" in every request before any such call.
C8_TestIsProcessMode ==
    returned =>
        /\ "Test" \in DOMAIN v
        /\ Len(v["Test"]) = 1
        /\ seen = modeCalls => v["Test"][1] = testMode
        /\ v["Test"][1] = "N" => ProductionChosen(seen)
        /\ ~ProductionChosen(seen) => v["Test"][1] = "Y"

\* C8 witness: a request whose own Test field says "Y" was sent as production.
C8_Witness == returned /\ p["Test"] = "Y" /\ v["Test"] = <<"N">>

\* C9: the Test value a request sends reflects the argument of the most
\* recent SetProductionMode call: "N" after true, "Y" after false.
C9_TwoWaySwitch ==
    (returned /\ seen # <<>>) =>
        v["Test"] = <<IF seen[Len(seen)] THEN "N" ELSE "Y">>

\* C10: the HN and PN values sent are the plain decimal digits of the unsigned
\* HandlingUnits and Pieces, over the whole range of the unsigned word.
C10_PlainDecimal ==
    returned =>
        \A k \in 1 .. Len(Items) :
            /\ v["HN" \o ItemSuffix(k - 1)] = <<NatStr(Items[k].HandlingUnits)>>
            /\ v["PN" \o ItemSuffix(k - 1)] = <<NatStr(Items[k].Pieces)>>

====
